---- MODULE Spec2Model ----
(***************************************************************************)
(* Model of the Weez cloud file API (src/app.py): a Flask facade over one   *)
(* blob container.  The container is modelled as two maps over blob names:  *)
(* the payload (size, decodability, content type) and the metadata          *)
(* dictionary the service attaches to it.  Strings are TLA+ strings, so the  *)
(* substring, prefix, split and lower-casing the handlers do are computed.  *)
(* Spec runs one request at a time; SpecConc splits the star and upload     *)
(* handlers at their blob-store round trips.                                *)
(***************************************************************************)
EXTENDS Integers, Sequences, FiniteSets, TLC

VARIABLES blobs, metadata, clock, types_map_docx, req, resp, prior, inflight, started

vars == <<blobs, metadata, clock, types_map_docx, req, resp, prior, inflight, started>>

(***************************** bounds ***************************************)
\* hours of wall-clock time the model lets pass
MaxClock == 1
\* requests SpecConc lets start in one behaviour
MaxStarted == 3

(*************************** program constants ******************************)
MB == 1048576
THUMBNAIL_HOURS == 1
DEFAULT_DURATION == 1
OK == 200
SERVER_ERROR == 500

(***************************** input sets ***********************************)
Owners == {"u", "v"}
\* what a client uploads: the owner, the file name, the body (its size in bytes
\* and whether PIL can decode it) and whether the store may reject the
\* metadata write that follows the body.  u uploads everything, v one file
\* (enough to tell the owners' prefixes apart).
Uploads == {[email |-> "u", filename |-> "A.png", size |-> 2 * MB, img |-> TRUE, may_fail |-> TRUE],
            [email |-> "u", filename |-> "A.png", size |-> MB, img |-> FALSE, may_fail |-> FALSE],
            [email |-> "u", filename |-> "b.docx", size |-> MB, img |-> FALSE, may_fail |-> FALSE],
            [email |-> "v", filename |-> "A.png", size |-> MB, img |-> FALSE, may_fail |-> FALSE]}
Targets == {<<"u", "A.png">>, <<"u", "b.docx">>, <<"v", "A.png">>}
\* the files the star and thumbnail requests name
StarTargets == {<<"u", "A.png">>}
\* the files the share and thumbnail requests name
ShareTargets == {<<"u", "A.png">>, <<"u", "b.docx">>}
\* a request's optional "duration" field: <<>> when the field is absent
Durations == {<< >>, <<0>>, <<2>>}
Queries == {"", "PNG"}
TypeFilters == {"", "image", "word"}
DateFilters == {"", "T01"}

(***************************** strings **************************************)
Digits == <<"0", "1", "2", "3", "4", "5", "6", "7", "8", "9">>

TwoDigits(n) == Digits[(n \div 10) + 1] \o Digits[(n % 10) + 1]

\* datetime.isoformat() of the instant `t` hours after 2024-01-01T00:00 UTC
isoformat(t) ==
    "2024-01-" \o TwoDigits(1 + (t \div 24)) \o "T" \o TwoDigits(t % 24) \o ":00:00+00:00"

CharLower(c) ==
    CASE c = "A" -> "a" [] c = "B" -> "b" [] c = "D" -> "d" [] c = "G" -> "g"
      [] c = "N" -> "n" [] c = "P" -> "p" [] OTHER -> c

RECURSIVE lower(_)
lower(s) == IF Len(s) = 0 THEN "" ELSE CharLower(SubSeq(s, 1, 1)) \o lower(SubSeq(s, 2, Len(s)))

\* Python's `sub in s`
str_in(sub, s) ==
    \E i \in 0 .. (Len(s) - Len(sub)) : SubSeq(s, i + 1, i + Len(sub)) = sub

startswith(s, p) == Len(p) <= Len(s) /\ SubSeq(s, 1, Len(p)) = p

\* position of the first c in s at or after position `from`, Len(s) + 1 when none
RECURSIVE find(_, _, _)
find(s, c, from) ==
    IF from > Len(s) THEN Len(s) + 1
    ELSE IF SubSeq(s, from, from) = c THEN from
    ELSE find(s, c, from + 1)

\* s.split('/')[1]: the text between the first and the second '/'
split_slash_1(s) ==
    LET i == find(s, "/", 1)
        j == find(s, "/", i + 1)
    IN SubSeq(s, i + 1, j - 1)

\* os.path.splitext(filename)[1]: from the last '.' on, "" when there is none
RECURSIVE splitext_1(_)
splitext_1(s) ==
    IF Len(s) = 0 THEN ""
    ELSE LET rest == splitext_1(SubSeq(s, 2, Len(s)))
         IN IF rest # "" THEN rest
            ELSE IF SubSeq(s, 1, 1) = "." THEN s ELSE ""

(**************************** content types *********************************)
OCTET_STREAM == "application/octet-stream"
DOCX_TYPE == "application/vnd.openxmlformats-officedocument.wordprocessingml.document"

\* mimetypes.guess_type(filename)[0], "" standing for None.  The interpreter's
\* table knows .png and .pdf everywhere; .docx only where the platform's
\* mime database supplies it (types_map_docx).
guess_type(filename) ==
    LET ext == lower(splitext_1(filename))
    IN CASE ext = ".png" -> "image/png"
         [] ext = ".pdf" -> "application/pdf"
         [] ext = ".docx" -> IF types_map_docx THEN DOCX_TYPE ELSE ""
         [] OTHER -> ""

fallback_table(ext) ==
    CASE ext = ".docx" -> DOCX_TYPE
      [] ext = ".pdf" -> "application/pdf"
      [] ext = ".png" -> "image/png"
      [] OTHER -> OCTET_STREAM

get_mime_type(filename) ==
    LET mime_type == guess_type(filename)
    IN IF mime_type = "" THEN fallback_table(lower(splitext_1(filename))) ELSE mime_type

\* mimetypes.guess_type(name)[0] or "application/octet-stream"
guess_or_octet(filename) ==
    LET g == guess_type(filename) IN IF g = "" THEN OCTET_STREAM ELSE g

(****************************** blob store **********************************)
blob_name(email, filename) == email \o "/" \o filename

\* the signed name built without the ".png" the stored preview gets
thumbnail_name_bare(email, filename) == email \o "/thumbnails/" \o filename

thumbnail_name(email, filename) == email \o "/thumbnails/" \o filename \o ".png"

\* dict[key] = value
SetItem(d, k, v) == [x \in (DOMAIN d) \cup {k} |-> IF x = k THEN v ELSE d[x]]

\* dict.get(key, default)
Get(d, k, default) == IF k \in DOMAIN d THEN d[k] ELSE default

EmptyDict == << >>

Put(f, k, v) == [x \in (DOMAIN f) \cup {k} |-> IF x = k THEN v ELSE f[x]]

Drop(f, k) == [x \in (DOMAIN f) \ {k} |-> f[x]]

Store == [blobs |-> blobs, metadata |-> metadata]

\* upload_blob(data, overwrite=True, ...): the blob is replaced whole, so its
\* metadata starts empty again
upload_blob(S, key, data, content_type) ==
    [blobs |-> Put(S.blobs, key, [size |-> data.size, img |-> data.img,
                                  content_type |-> content_type]),
     metadata |-> Put(S.metadata, key, EmptyDict)]

\* set_blob_metadata(md) on an existing blob replaces its whole dictionary
set_blob_metadata(S, key, md) ==
    [blobs |-> S.blobs, metadata |-> Put(S.metadata, key, md)]

\* delete_blob(): the blob goes, and its metadata with it
delete_blob(S, key) ==
    [blobs |-> Drop(S.blobs, key), metadata |-> Drop(S.metadata, key)]

exists(S, key) == key \in DOMAIN S.blobs

\* the metadata record of `key` before a request, as a set of at most one record
record_of(S, key) == IF key \in DOMAIN S.metadata THEN {S.metadata[key]} ELSE {}

(****************************** responses ***********************************)
Error(kind) == [status |-> SERVER_ERROR, body |-> [error |-> kind]]

Message(text) == [status |-> OK, body |-> [message |-> text]]

Slots == {1, 2}

TypeOK ==
    /\ DOMAIN blobs = DOMAIN metadata
    /\ DOMAIN inflight \subseteq Slots
    /\ clock \in 0 .. MaxClock
    /\ types_map_docx \in BOOLEAN
    /\ started \in 0 .. MaxStarted

Init ==
    /\ blobs = << >>
    /\ metadata = << >>
    /\ clock = 0
    /\ types_map_docx \in BOOLEAN
    /\ req = [op |-> "none"]
    /\ resp = [status |-> OK, body |-> [message |-> ""]]
    /\ prior = {}
    /\ inflight = << >>
    /\ started = 0

\* the wall clock advances between requests
Tick ==
    /\ clock < MaxClock
    /\ clock' = clock + 1
    /\ UNCHANGED <<blobs, metadata, types_map_docx, req, resp, prior, inflight, started>>

(************************ handlers, one request at a time *******************)
\* req is the request served last (with `at`, the server's clock, where the
\* handler reads it), resp its response, prior the metadata its blob had before.
\* `meta_fails`: the store rejects the upload's set_blob_metadata call
\* the record of the handler's earlier version: the upload date alone
initial_metadata_date_only(mime_type, now) == [upload_date |-> isoformat(now)]

initial_metadata(mime_type, now) ==
    [upload_date |-> isoformat(now), starred |-> "false", mime_type |-> mime_type]

\* the upload written as a merge into the record the key already had
upload_file_merge(email, filename, file, meta_fails) ==
    LET key == blob_name(email, filename)
        mime_type == get_mime_type(filename)
        S1 == upload_blob(Store, key, file, mime_type)
        kept == IF key \in DOMAIN metadata
                THEN Get(metadata[key], "starred", "false") ELSE "false"
        S2 == set_blob_metadata(S1, key, SetItem(initial_metadata(mime_type, clock),
                                                 "starred", kept))
    IN /\ req' = [op |-> "upload", email |-> email, filename |-> filename, at |-> clock]
       /\ prior' = record_of(Store, key)
       /\ IF meta_fails
          THEN /\ blobs' = S1.blobs
               /\ metadata' = S1.metadata
               /\ resp' = Error("StoreUnavailable")
          ELSE /\ blobs' = S2.blobs
               /\ metadata' = S2.metadata
               /\ resp' = Message("File " \o filename \o " uploaded successfully")
       /\ UNCHANGED <<clock, types_map_docx, inflight, started>>

upload_file(email, filename, file, meta_fails) ==
    LET key == blob_name(email, filename)
        mime_type == get_mime_type(filename)
        S1 == upload_blob(Store, key, file, mime_type)
        S2 == set_blob_metadata(S1, key, initial_metadata(mime_type, clock))
    IN /\ req' = [op |-> "upload", email |-> email, filename |-> filename, at |-> clock]
       /\ prior' = record_of(Store, key)
       /\ IF meta_fails
          THEN /\ blobs' = S1.blobs
               /\ metadata' = S1.metadata
               /\ resp' = Error("StoreUnavailable")
          ELSE /\ blobs' = S2.blobs
               /\ metadata' = S2.metadata
               /\ resp' = Message("File " \o filename \o " uploaded successfully")
       /\ UNCHANGED <<clock, types_map_docx, inflight, started>>

delete_file(email, filename) ==
    LET key == blob_name(email, filename)
        S1 == delete_blob(Store, key)
    IN /\ req' = [op |-> "delete", email |-> email, filename |-> filename]
       /\ prior' = record_of(Store, key)
       /\ IF ~exists(Store, key)
          THEN /\ UNCHANGED <<blobs, metadata>>
               /\ resp' = Error("BlobNotFound")
          ELSE /\ blobs' = S1.blobs
               /\ metadata' = S1.metadata
               /\ resp' = Message("File " \o filename \o " deleted successfully")
       /\ UNCHANGED <<clock, types_map_docx, inflight, started>>

\* the toggle written as an overwrite instead of a read-merge-write
with_starred_overwrite(md, starred) == [starred |-> IF starred THEN "true" ELSE "false"]

\* metadata["starred"] = "true" if starred else "false"
with_starred(md, starred) == SetItem(md, "starred", IF starred THEN "true" ELSE "false")

star_file(email, filename, starred) ==
    LET key == blob_name(email, filename)
    IN /\ req' = [op |-> "star", email |-> email, filename |-> filename,
                  starred |-> starred]
       /\ prior' = record_of(Store, key)
       /\ IF ~exists(Store, key)
          THEN /\ UNCHANGED <<blobs, metadata>>
               /\ resp' = Error("BlobNotFound")
          ELSE LET S1 == set_blob_metadata(Store, key,
                                           with_starred(metadata[key], starred))
               IN /\ blobs' = S1.blobs
                  /\ metadata' = S1.metadata
                  /\ resp' = Message("File " \o filename \o " starred status updated")
       /\ UNCHANGED <<clock, types_map_docx, inflight, started>>

\* blobs under a prefix come back in the store's (lexicographic) name order
AllBlobNames == <<"u/A.png", "u/b.docx", "u/thumbnails/A.png.png", "v/A.png">>

\* a listing that leaves the derived previews out
in_listing_no_previews(S, prefix, name) ==
    name \in DOMAIN S.blobs /\ startswith(name, prefix) /\ ~str_in("/thumbnails/", name)

in_listing(S, prefix, name) == name \in DOMAIN S.blobs /\ startswith(name, prefix)

list_blobs(S, prefix) == SelectSeq(AllBlobNames, LAMBDA name : in_listing(S, prefix, name))

\* one entry of list_files' file_list
list_entry(S, name) ==
    LET md == S.metadata[name]
        filename == split_slash_1(name)
    IN [name |-> filename,
        size |-> S.blobs[name].size,
        upload_date |-> Get(md, "upload_date", ""),
        mime_type |-> Get(md, "mime_type", get_mime_type(filename)),
        starred |-> (Get(md, "starred", "false") = "true")]

file_list(S, email) ==
    LET names == list_blobs(S, email \o "/")
    IN [i \in DOMAIN names |-> list_entry(S, names[i])]

list_files(email) ==
    /\ req' = [op |-> "list", email |-> email]
    /\ resp' = [status |-> OK, body |-> [files |-> file_list(Store, email)]]
    /\ prior' = {}
    /\ UNCHANGED <<blobs, metadata, clock, types_map_docx, inflight, started>>

\* one entry of search_files' file_list: the type comes from the name alone
search_entry(S, name) ==
    LET md == S.metadata[name]
        filename == split_slash_1(name)
    IN [name |-> filename,
        size |-> S.blobs[name].size,
        upload_date |-> Get(md, "upload_date", ""),
        mime_type |-> guess_or_octet(filename),
        starred |-> (Get(md, "starred", "false") = "true")]

\* the three filters joined by `or`
search_match_any(f, query, type_filter, date_filter) ==
    \/ (str_in(query, lower(f.name)) \/ query = "")
    \/ (str_in(type_filter, f.mime_type) \/ type_filter = "")
    \/ (str_in(date_filter, f.upload_date) \/ date_filter = "")

search_match(f, query, type_filter, date_filter) ==
    /\ (str_in(query, lower(f.name)) \/ query = "")
    /\ (str_in(type_filter, f.mime_type) \/ type_filter = "")
    /\ (str_in(date_filter, f.upload_date) \/ date_filter = "")

search_list(S, email) ==
    LET names == list_blobs(S, email \o "/")
    IN [i \in DOMAIN names |-> search_entry(S, names[i])]

filtered_files(S, email, query, type_filter, date_filter) ==
    SelectSeq(search_list(S, email),
              LAMBDA f : search_match(f, lower(query), type_filter, date_filter))

search_files(email, query, type_filter, date_filter) ==
    /\ req' = [op |-> "search", email |-> email, query |-> query,
                type |-> type_filter, date |-> date_filter]
    /\ resp' = [status |-> OK,
                 body |-> [files |-> filtered_files(Store, email, query, type_filter,
                                                    date_filter)]]
    /\ prior' = {}
    /\ UNCHANGED <<blobs, metadata, clock, types_map_docx, inflight, started>>

\* generate_blob_sas(blob_name=..., permission=BlobSasPermissions(read=True), expiry=...)
generate_blob_sas(name, expiry) == [blob_name |-> name, permission |-> "r", expiry |-> expiry]

\* int(request.json.get('duration', 1))
duration_of(d) == IF d = << >> THEN DEFAULT_DURATION ELSE d[1]

generate_sas(email, filename, d) ==
    LET key == blob_name(email, filename)
        duration == duration_of(d)
        content_type == blobs[key].content_type
        mime_type == IF content_type = "" THEN get_mime_type(filename) ELSE content_type
        sas_token == generate_blob_sas(blob_name(email, filename), clock + duration)
    IN /\ req' = [op |-> "generate-sas", email |-> email, filename |-> filename,
                  duration |-> d, at |-> clock]
       /\ resp' = IF ~exists(Store, key) THEN Error("BlobNotFound")
                  ELSE [status |-> OK,
                        body |-> [sas_url |-> [url |-> key, token |-> sas_token,
                                               mime_type |-> mime_type],
                                  mime_type |-> mime_type]]
       /\ prior' = {}
       /\ UNCHANGED <<blobs, metadata, clock, types_map_docx, inflight, started>>

\* Image.open / thumbnail((100, 100)) / save(format="PNG"): the re-encoded image;
\* the model takes a quarter of the source's size for it
thumbnail_data(data) == [size |-> data.size \div 4, img |-> TRUE]

generate_thumbnail(email, filename) ==
    LET key == blob_name(email, filename)
        mime_type == guess_or_octet(filename)
        tkey == blob_name(email, "thumbnails/" \o filename \o ".png")
        sas_token == generate_blob_sas(thumbnail_name(email, filename),
                                       clock + THUMBNAIL_HOURS)
    IN /\ req' = [op |-> "thumbnail", email |-> email, filename |-> filename, at |-> clock]
       /\ prior' = {}
       /\ IF ~startswith(mime_type, "image")
          THEN /\ resp' = Message("No thumbnail available")
               /\ UNCHANGED <<blobs, metadata>>
          ELSE IF ~exists(Store, key)
          THEN /\ resp' = Error("BlobNotFound")
               /\ UNCHANGED <<blobs, metadata>>
          ELSE IF ~blobs[key].img
          THEN /\ resp' = Error("UnidentifiedImageError")
               /\ UNCHANGED <<blobs, metadata>>
          ELSE LET S1 == upload_blob(Store, tkey, thumbnail_data(blobs[key]), OCTET_STREAM)
               IN /\ blobs' = S1.blobs
                  /\ metadata' = S1.metadata
                  /\ resp' = [status |-> OK,
                              body |-> [thumbnail_url |-> [url |-> tkey,
                                                           token |-> sas_token]]]
       /\ UNCHANGED <<clock, types_map_docx, inflight, started>>

RECURSIVE sum_sizes(_, _)
sum_sizes(S, names) ==
    IF names = << >> THEN 0 ELSE S.blobs[Head(names)].size + sum_sizes(S, Tail(names))

RECURSIVE gcd(_, _)
gcd(a, b) == IF b = 0 THEN a ELSE gcd(b, a % b)

\* the quotient a / b of Python's true division, as a fraction in lowest terms
true_div(a, b) == [num |-> a \div gcd(a, b), den |-> b \div gcd(a, b)]

total_size(S, email) == true_div(sum_sizes(S, list_blobs(S, email \o "/")), 1024 * 1024)

storage_usage(email) ==
    /\ req' = [op |-> "storage-usage", email |-> email]
    /\ resp' = [status |-> OK, body |-> [usage_mb |-> total_size(Store, email)]]
    /\ prior' = {}
    /\ UNCHANGED <<blobs, metadata, clock, types_map_docx, inflight, started>>

Next ==
    \/ Tick
    \/ \E u \in Uploads, meta_fails \in BOOLEAN :
          /\ meta_fails => u.may_fail
          /\ upload_file(u.email, u.filename, u, meta_fails)
    \/ \E t \in Targets : delete_file(t[1], t[2])
    \/ \E t \in StarTargets, starred \in BOOLEAN : star_file(t[1], t[2], starred)
    \/ \E email \in Owners : list_files(email)
    \/ \E q \in Queries, t \in TypeFilters, d \in DateFilters : search_files("u", q, t, d)
    \/ \E t \in ShareTargets, d \in Durations : generate_sas(t[1], t[2], d)
    \/ \E t \in ShareTargets : generate_thumbnail(t[1], t[2])
    \/ \E email \in Owners : storage_usage(email)

Spec == Init /\ [][Next]_vars

(************** handlers split at their blob-store round trips **************)
\* Requests are served concurrently: between two store calls of one handler
\* any other request may run.  inflight holds, per serving thread, the handler's
\* locals between its first and its second store call.
ConcUploads == {u \in Uploads : u.email = "u" /\ u.filename = "A.png" /\ u.img}

finish(slot) == [x \in (DOMAIN inflight) \ {slot} |-> inflight[x]]

\* star_file up to and including blob_client.get_blob_metadata()
star_get(slot, email, filename, starred) ==
    LET key == blob_name(email, filename)
        r == [op |-> "star", email |-> email, filename |-> filename, starred |-> starred]
    IN /\ slot \notin DOMAIN inflight
       /\ started < MaxStarted
       /\ started' = started + 1
       /\ IF ~exists(Store, key)
          THEN /\ req' = r
               /\ resp' = Error("BlobNotFound")
               /\ prior' = {}
               /\ UNCHANGED inflight
          ELSE /\ inflight' = Put(inflight, slot, [request |-> r, metadata |-> metadata[key]])
               /\ UNCHANGED <<req, resp, prior>>
       /\ UNCHANGED <<blobs, metadata, clock, types_map_docx>>

\* star_file from metadata["starred"] = ... to its response
star_set(slot) ==
    /\ slot \in DOMAIN inflight
    /\ inflight[slot].request.op = "star"
    /\ LET r == inflight[slot].request
           key == blob_name(r.email, r.filename)
           S1 == set_blob_metadata(Store, key, with_starred(inflight[slot].metadata, r.starred))
       IN /\ req' = r
          /\ prior' = {inflight[slot].metadata}
          /\ IF ~exists(Store, key)
             THEN /\ resp' = Error("BlobNotFound")
                  /\ UNCHANGED <<blobs, metadata>>
             ELSE /\ blobs' = S1.blobs
                  /\ metadata' = S1.metadata
                  /\ resp' = Message("File " \o r.filename \o " starred status updated")
    /\ inflight' = finish(slot)
    /\ UNCHANGED <<clock, types_map_docx, started>>

\* upload_file up to and including blob_client.upload_blob(...)
upload_put(slot, email, filename, file) ==
    LET key == blob_name(email, filename)
        mime_type == get_mime_type(filename)
        S1 == upload_blob(Store, key, file, mime_type)
        r == [op |-> "upload", email |-> email, filename |-> filename]
    IN /\ slot \notin DOMAIN inflight
       /\ started < MaxStarted
       /\ started' = started + 1
       /\ blobs' = S1.blobs
       /\ metadata' = S1.metadata
       /\ inflight' = Put(inflight, slot, [request |-> r, mime_type |-> mime_type])
       /\ UNCHANGED <<clock, types_map_docx, req, resp, prior>>

\* upload_file from blob_client.set_blob_metadata({...}) to its response
upload_set(slot) ==
    /\ slot \in DOMAIN inflight
    /\ inflight[slot].request.op = "upload"
    /\ LET r == inflight[slot].request
           key == blob_name(r.email, r.filename)
           S1 == set_blob_metadata(Store, key,
                                   initial_metadata(inflight[slot].mime_type, clock))
       IN /\ req' = [op |-> "upload", email |-> r.email, filename |-> r.filename,
                     at |-> clock]
          /\ prior' = record_of(Store, key)
          /\ IF ~exists(Store, key)
             THEN /\ resp' = Error("BlobNotFound")
                  /\ UNCHANGED <<blobs, metadata>>
             ELSE /\ blobs' = S1.blobs
                  /\ metadata' = S1.metadata
                  /\ resp' = Message("File " \o r.filename \o " uploaded successfully")
    /\ inflight' = finish(slot)
    /\ UNCHANGED <<clock, types_map_docx, started>>

NextConc ==
    \/ Tick
    \/ \E slot \in Slots, t \in StarTargets, starred \in BOOLEAN :
          star_get(slot, t[1], t[2], starred)
    \/ \E slot \in Slots : star_set(slot)
    \/ \E slot \in Slots, u \in ConcUploads : upload_put(slot, u.email, u.filename, u)
    \/ \E slot \in Slots : upload_set(slot)
    \/ \E t \in StarTargets : delete_file(t[1], t[2])

SpecConc == Init /\ [][NextConc]_vars

(******************************** claims ************************************)
FullRecord == {"upload_date", "starred", "mime_type"}

\* the blob the last request named
req_key == blob_name(req.email, req.filename)

\* C1: a successful star-toggle on an existing object changes only the
\* starred field of its metadata: every other field the record had (upload_date
\* D, mime_type M) is still there with the same value, no field is added, and
\* starred is the value the call passed.
C1_StarPreservesFields ==
    (req.op = "star" /\ resp.status = OK) =>
        /\ prior # {}
        /\ req_key \in DOMAIN metadata
        /\ \A p \in prior :
              /\ DOMAIN metadata[req_key] = (DOMAIN p) \cup {"starred"}
              /\ \A f \in (DOMAIN p) \ {"starred"} : metadata[req_key][f] = p[f]
              /\ metadata[req_key]["starred"] = (IF req.starred THEN "true" ELSE "false")

\* star(false) has just succeeded on a fully described object that was starred
C1_Witness ==
    /\ req.op = "star" /\ resp.status = OK /\ ~req.starred
    /\ \E p \in prior : DOMAIN p = FullRecord /\ p["starred"] = "true"
    /\ DOMAIN metadata[req_key] = FullRecord
    /\ metadata[req_key]["starred"] = "false"

\* C4: after a successful upload the key holds one object and one metadata
\* record, and the record is the upload's own, whatever was there before:
\* upload_date is the time of this upload, starred is "false", mime_type is the
\* type resolved from the name.
C4_ReuploadReplaces ==
    (req.op = "upload" /\ resp.status = OK) =>
        /\ req_key \in DOMAIN blobs
        /\ req_key \in DOMAIN metadata
        /\ DOMAIN metadata[req_key] = FullRecord
        /\ metadata[req_key]["upload_date"] = isoformat(req.at)
        /\ metadata[req_key]["starred"] = "false"
        /\ metadata[req_key]["mime_type"] = get_mime_type(req.filename)
        /\ (req.filename = "A.png" => metadata[req_key]["mime_type"] = "image/png")
        /\ (req.filename = "b.docx" => metadata[req_key]["mime_type"] = DOCX_TYPE)

\* a second upload of a file that was uploaded earlier and starred since
C4_Witness ==
    /\ req.op = "upload" /\ resp.status = OK
    /\ \E p \in prior :
          /\ DOMAIN p = FullRecord
          /\ p["starred"] = "true"
          /\ p["upload_date"] # metadata[req_key]["upload_date"]
    /\ metadata[req_key]["starred"] = "false"

\* C3 as stated: every object carries a record with upload_date, starred and
\* mime_type, and no record is without its object.
C3_EveryObjectDescribed ==
    /\ DOMAIN metadata = DOMAIN blobs
    /\ \A name \in DOMAIN blobs : DOMAIN metadata[name] = FullRecord

\* C3 as amended: every object has exactly one metadata record and no record
\* is without its object; a record is either the full one an upload writes
\* (upload_date, starred and mime_type together), or it has neither upload_date
\* nor mime_type: empty for a derived preview and for an object whose upload
\* did not get to write its metadata, starred alone once such an object is
\* star-toggled.
C3_RecordShapes ==
    /\ DOMAIN metadata = DOMAIN blobs
    /\ \A name \in DOMAIN blobs :
          DOMAIN metadata[name] \in {{}, {"starred"}, FullRecord}

\* a derived preview with an empty record beside its fully described original
C3_Witness ==
    /\ "u/thumbnails/A.png.png" \in DOMAIN blobs
    /\ DOMAIN metadata["u/thumbnails/A.png.png"] = {}
    /\ "u/A.png" \in DOMAIN blobs
    /\ DOMAIN metadata["u/A.png"] = FullRecord

\* the filters of the claims, on one entry and a given type string
Matches(name, type, date, query, type_filter, date_filter) ==
    /\ (query = "" \/ str_in(lower(query), lower(name)))
    /\ (type_filter = "" \/ str_in(type_filter, type))
    /\ (date_filter = "" \/ str_in(date_filter, date))

Names(files) == [i \in DOMAIN files |-> files[i].name]

\* C5 as stated: search returns exactly the entries of the owner's listing
\* that pass the three filters, the type filter read against the entry's
\* mime_type (the entries are compared by name).
C5_SearchFiltersListing ==
    (req.op = "search" /\ resp.status = OK) =>
        Names(resp.body.files) =
            Names(SelectSeq(file_list(Store, req.email),
                            LAMBDA f : Matches(f.name, f.mime_type, f.upload_date,
                                               req.query, req.type, req.date)))

\* the listing's entry as search reports it: the type inferred from the name
\* by the extension lookup alone, "application/octet-stream" when it finds none
Inferred(files) ==
    [i \in DOMAIN files |-> [files[i] EXCEPT !.mime_type = guess_or_octet(files[i].name)]]

\* C5 as amended: search returns, in listing order, exactly the entries of the
\* owner's listing for which all three hold: query is empty or a
\* case-insensitive substring of the name; type_filter is empty or a substring
\* of the type inferred from the name by the extension lookup alone (not of the
\* listing's mime_type); date_filter is empty or a substring of upload_date.
\* Each entry is reported with that inferred type as its mime_type.
C5_SearchFiltersInferred ==
    (req.op = "search" /\ resp.status = OK) =>
        resp.body.files =
            SelectSeq(Inferred(file_list(Store, req.email)),
                      LAMBDA f : Matches(f.name, f.mime_type, f.upload_date,
                                         req.query, req.type, req.date))

\* a .docx the listing types as a word document, which a search for the type
\* "word" does not return
C5_Witness ==
    /\ req.op = "search" /\ resp.status = OK
    /\ req.email = "u" /\ req.query = "" /\ req.type = "word" /\ req.date = ""
    /\ "u/b.docx" \in DOMAIN blobs
    /\ \E i \in DOMAIN file_list(Store, "u") :
          /\ file_list(Store, "u")[i].name = "b.docx"
          /\ str_in("word", file_list(Store, "u")[i].mime_type)
    /\ resp.body.files = << >>

RECURSIVE SumOver(_, _)
SumOver(size, names) ==
    IF names = {} THEN 0
    ELSE LET n == CHOOSE x \in names : TRUE IN size[n].size + SumOver(size, names \ {n})

\* the blobs stored under an owner's prefix
Under(email) == {name \in DOMAIN blobs : startswith(name, email \o "/")}

SameExcept(names) ==
    /\ (DOMAIN blobs') \ names = (DOMAIN blobs) \ names
    /\ (DOMAIN metadata') \ names = (DOMAIN metadata) \ names
    /\ \A n \in (DOMAIN blobs) \ names : blobs'[n] = blobs[n]
    /\ \A n \in (DOMAIN metadata) \ names : metadata'[n] = metadata[n]

\* C6: a preview request for a name whose resolved type is not an image type
\* answers 200 with the no-preview message and leaves the store as it was; for
\* an existing, decodable image it answers 200 with a read-only signed URL on
\* {owner}/thumbnails/{name}.png, a blob exists at that key when it answers, and
\* every other blob and record, the original's included, is unchanged.
C6_Preview ==
    [][\A t \in ShareTargets :
          generate_thumbnail(t[1], t[2]) =>
             LET key == t[1] \o "/" \o t[2]
                 preview == t[1] \o "/thumbnails/" \o t[2] \o ".png"
             IN IF ~startswith(get_mime_type(t[2]), "image/")
                THEN /\ resp' = [status |-> OK,
                                 body |-> [message |-> "No thumbnail available"]]
                     /\ blobs' = blobs
                     /\ metadata' = metadata
                ELSE (key \in DOMAIN blobs /\ blobs[key].img) =>
                        /\ resp'.status = OK
                        /\ DOMAIN resp'.body = {"thumbnail_url"}
                        /\ resp'.body.thumbnail_url.url = preview
                        /\ resp'.body.thumbnail_url.token.blob_name = preview
                        /\ resp'.body.thumbnail_url.token.permission = "r"
                        /\ preview \in DOMAIN blobs'
                        /\ SameExcept({preview})]_vars

\* a preview of u's A.png has just been derived and stored
C6_Witness ==
    /\ req.op = "thumbnail" /\ req.email = "u" /\ req.filename = "A.png"
    /\ resp.status = OK
    /\ "thumbnail_url" \in DOMAIN resp.body
    /\ resp.body.thumbnail_url.url = "u/thumbnails/A.png.png"
    /\ "u/thumbnails/A.png.png" \in DOMAIN blobs
    /\ "u/A.png" \in DOMAIN blobs

\* C7 as stated: a share request with a positive duration (1 when the request
\* names none) gets a read-only URL on exactly {owner}/{name} that expires
\* duration hours after its issue, so later than its issue; a request with a
\* zero or negative duration gets an error and no URL.
C7_ShareExpiry ==
    (req.op = "generate-sas" /\ req_key \in DOMAIN blobs) =>
        LET duration == IF req.duration = << >> THEN 1 ELSE req.duration[1]
        IN IF duration <= 0
           THEN resp.status # OK /\ "sas_url" \notin DOMAIN resp.body
           ELSE /\ resp.status = OK
                /\ resp.body.sas_url.url = req_key
                /\ resp.body.sas_url.token.blob_name = req_key
                /\ resp.body.sas_url.token.permission = "r"
                /\ resp.body.sas_url.token.expiry = req.at + duration
                /\ resp.body.sas_url.token.expiry > req.at

\* C2 as stated: once a delete has succeeded the owner's listing has no entry
\* of that name, and a star-toggle on the name answers 404 and creates neither
\* a blob nor a metadata record.
C2_StarAfterDelete ==
    [][(req.op = "delete" /\ resp.status = OK) =>
          /\ \A i \in DOMAIN file_list(Store, req.email) :
                file_list(Store, req.email)[i].name # req.filename
          /\ \A starred \in BOOLEAN :
                star_file(req.email, req.filename, starred) =>
                   /\ resp'.status = 404
                   /\ req_key \notin DOMAIN blobs'
                   /\ req_key \notin DOMAIN metadata']_vars

\* C10 as stated: the listing has one entry per blob under the owner's prefix,
\* each entry's name is not empty, and owner + "/" + name is the key of the blob
\* the entry stands for.
C10_ListNamesResolve ==
    (req.op = "list" /\ resp.status = OK) =>
        LET files == resp.body.files
            names == list_blobs(Store, req.email \o "/")
        IN /\ Len(files) = Cardinality(Under(req.email))
           /\ \A i \in DOMAIN files :
                 /\ files[i].name # ""
                 /\ req.email \o "/" \o files[i].name = names[i]

\* C9 as stated: the write step of a star-toggle leaves upload_date and
\* mime_type of the record as the store holds them, whatever ran between the
\* toggle's read and its write.
C9_StarKeepsUploadDate ==
    [][\A slot \in Slots :
          star_set(slot) =>
             LET key == blob_name(inflight[slot].request.email,
                                  inflight[slot].request.filename)
             IN (key \in DOMAIN metadata /\ key \in DOMAIN metadata') =>
                   /\ Get(metadata'[key], "upload_date", "") =
                         Get(metadata[key], "upload_date", "")
                   /\ Get(metadata'[key], "mime_type", "") =
                         Get(metadata[key], "mime_type", "")]_vars

====
